---- MODULE Spec2Model ----
(***************************************************************************)
(* A model of sqlite-docstore (src/src/index.js): a Mongo-style document   *)
(* API over SQLite tables of shape (_id TEXT PRIMARY KEY, document JSON).  *)
(*                                                                         *)
(* JavaScript objects (documents, queries, the $set mapping) are ordered   *)
(* mappings: sequences of [k, v] pairs with distinct keys.  JavaScript     *)
(* values are records [t, s, n] tagged with their typeof.  A stored blob   *)
(* is the JSON text of an object, modelled as the sequence of its members. *)
(* The storage engine is modelled by what its statements do: the primary   *)
(* key constraint, NULL-aware comparison, json_extract, json_set, LIMIT 1, *)
(* parameter binding and the transaction wrapper.                          *)
(***************************************************************************)
EXTENDS Integers, Sequences, FiniteSets, TLC

\* ----------------------------------------------------------------- bounds
\* The number of calls made on one store.
MaxCalls == 4

\* The most rows of a collection aggregate is run on, the test's collection aside.
MaxAggRows == 3

\* ------------------------------------------------------- JavaScript values
Str(x) == [t |-> "string", s |-> x, n |-> 0, a |-> <<>>]

Num(x) == [t |-> "number", s |-> "", n |-> x, a |-> <<>>]

Bool(b) == [t |-> "boolean", s |-> "", n |-> IF b THEN 1 ELSE 0, a |-> <<>>]

Null == [t |-> "null", s |-> "", n |-> 0, a |-> <<>>]

Undefined == [t |-> "undefined", s |-> "", n |-> 0, a |-> <<>>]

\* An array; its elements are in a.
Arr(elems) == [t |-> "array", s |-> "", n |-> 0, a |-> elems]

\* An operator object with one key, { $op: operand }; the operand is a[1].
Obj(op, operands) == [t |-> "object", s |-> op, n |-> 0, a |-> operands]

\* An operator object with a second key after the first, { $op: operand, $other: x }.
ObjMore(op, operands) == [t |-> "object", s |-> op, n |-> 1, a |-> operands]

\* JavaScript truthiness, as used by `document._id || uuidv4()` and `!update.$set`.
Truthy(v) ==
  CASE v.t = "string" -> v.s # ""
    [] v.t = "number" -> v.n # 0
    [] v.t = "boolean" -> v.n = 1
    [] OTHER -> FALSE

\* ------------------------------------------------------ JavaScript objects
Pair(k, v) == [k |-> k, v |-> v]

Keys(obj) == {obj[i].k : i \in 1..Len(obj)}

HasKey(obj, k) == k \in Keys(obj)

\* obj[k]: the member's value, undefined when the object has no such member.
Get(obj, k) ==
  IF HasKey(obj, k)
    THEN obj[CHOOSE i \in 1..Len(obj) : obj[i].k = k].v
    ELSE Undefined

\* obj[k] = v: an existing member keeps its position, a new one is appended.
Assign(obj, k, v) ==
  IF HasKey(obj, k)
    THEN [i \in 1..Len(obj) |-> IF obj[i].k = k THEN Pair(k, v) ELSE obj[i]]
    ELSE Append(obj, Pair(k, v))

\* { ...a, ...b }: the members of a, overwritten or followed by those of b.
RECURSIVE Spread(_, _)
Spread(a, b) ==
  IF b = <<>> THEN a ELSE Spread(Assign(a, b[1].k, b[1].v), Tail(b))

\* deepStrictEqual on plain objects: same members, same values, in any order.
SameDocument(a, b) == {a[i] : i \in 1..Len(a)} = {b[i] : i \in 1..Len(b)}

\* -------------------------------------------------------------------- JSON
\* JSON.stringify of an object: members whose value is undefined are omitted,
\* the others are written in member order.
JSONstringify(obj) == [json |-> SelectSeq(obj, LAMBDA p : p.v.t # "undefined")]

\* JSON.parse of an object text: its members in text order.
JSONparse(blob) == blob.json

\* ------------------------------------------------------------- SQL values
SqlText(x) == [t |-> "TEXT", s |-> x, n |-> 0]

SqlInt(x) == [t |-> "INTEGER", s |-> "", n |-> x]

SqlNull == [t |-> "NULL", s |-> "", n |-> 0]

\* What better-sqlite3 binds: numbers, strings and null; anything else is a TypeError.
Bindable(v) == v.t \in {"string", "number", "null"}

Bind(v) ==
  CASE v.t = "string" -> SqlText(v.s)
    [] v.t = "number" -> SqlInt(v.n)
    [] OTHER -> SqlNull

\* json_extract(document, '$.key'): text for a string, an integer for a number
\* and for true/false, NULL for JSON null and for a missing member.
json_extract(blob, key) ==
  LET v == Get(blob.json, key) IN
  CASE v.t = "string" -> SqlText(v.s)
    [] v.t = "number" -> SqlInt(v.n)
    [] v.t = "boolean" -> SqlInt(v.n)
    [] OTHER -> SqlNull

\* The value json_set writes for a bound parameter.
JsonOfSql(x) ==
  CASE x.t = "TEXT" -> Str(x.s)
    [] x.t = "INTEGER" -> Num(x.n)
    [] OTHER -> Null

\* json_set(document, '$.key', ?): replaces the member or creates it.
json_set(blob, key, x) == [json |-> Assign(blob.json, key, JsonOfSql(x))]

\* SQL `a = b` in a WHERE clause: a comparison with NULL is not true.
SqlEq(a, b) == a.t # "NULL" /\ b.t # "NULL" /\ a = b

\* ------------------------------------------------------------ call results
Result(kind, err, n, id, docs) ==
  [kind |-> kind, err |-> err, n |-> n, id |-> id, docs |-> docs]

Ack == Result("ack", "", 0, "", <<>>)

AckId(id) == Result("ack", "", 0, id, <<>>)

AckN(n) == Result("ack", "", n, "", <<>>)

Thrown(e) == Result("err", e, 0, "", <<>>)

Documents(ds) == Result("docs", "", 0, "", ds)

Document(d) == Result("doc", "", 0, "", <<d>>)

NullResult == Result("null", "", 0, "", <<>>)

UndefinedResult == Result("undefined", "", 0, "", <<>>)

Number(n) == Result("number", "", n, "", <<>>)

NoSuchTable == "no such table"

SyntaxError == "syntax error"

TypeError == "TypeError"

RangeError == "Too few parameter values were provided"

DuplicateKey == "UNIQUE constraint failed"

TableExists == "there is already another table"

OnlySet == "Only $set updates are supported"

UnsupportedOperator == "Unsupported operator"

UnsupportedOperatorForKey == "Unsupported operator for key"

\* ------------------------------------------------------------ input pools
Names == {"c1", "c2"}

UuidPool == <<"u1", "u2", "u3", "u4", "u5", "u6", "u7", "u8", "u9", "u10", "u11", "u12">>

\* The documents insertMany is called with.
BatchDocs ==
  { <<Pair("name", Str("a"))>>,
    <<Pair("_id", Str("a")), Pair("name", Str("a"))>>,
    <<Pair("_id", Str("b")), Pair("name", Str("b"))>> }

BatchPool == UNION {[1..n -> BatchDocs] : n \in 0..2}

DocPool ==
  { <<Pair("name", Str("a"))>>,
    <<Pair("name", Null)>>,
    <<Pair("_id", Str("a")), Pair("name", Str("a"))>>,
    <<Pair("_id", Str("b")), Pair("name", Str("a"))>>,
    <<Pair("_id", Str("")), Pair("name", Str("b"))>> }

QueryPool ==
  { <<>>,
    <<Pair("name", Str("a"))>>,
    <<Pair("name", Null)>>,
    <<Pair("name", Bool(TRUE))>> }

\* A query on a field whose name is not an identifier.
PathQueries == { <<Pair("first-name", Str("a"))>> }

\* The values findWithIn is asked for.
InOperands == {Str("a"), Str("b"), Null}

\* { name: { $in: [a, b] } }
InQuery(a, b) == <<Pair("name", Obj("$in", <<Arr(<<a, b>>)>>))>>

\* The queries findWithIn is called with: the $in of two values, a literal, a
\* null, another operator, a second key beside $in, a $in that is no array.
InQueries ==
  { InQuery(Str("a"), Str("b")),
    <<Pair("name", Str("a"))>>,
    <<Pair("name", Null)>>,
    <<Pair("name", Obj("$eq", <<Str("a")>>))>>,
    <<Pair("name", ObjMore("$in", <<Arr(<<Str("a"), Str("b")>>)>>))>>,
    <<Pair("name", Obj("$in", <<Str("a")>>))>> }

\* The queries findWithRegex is called with: a pattern, the empty pattern, a
\* literal, a null, another operator, a second key beside $regex.
RegexQueries ==
  { <<Pair("name", Obj("$regex", <<Str("a")>>))>>,
    <<Pair("name", Obj("$regex", <<Str("")>>))>>,
    <<Pair("name", Str("a"))>>,
    <<Pair("name", Null)>>,
    <<Pair("name", Obj("$eq", <<Str("a")>>))>>,
    <<Pair("name", ObjMore("$regex", <<Str("a")>>))>> }

\* Queries whose value is an operator object.
OperatorQueries ==
  { InQuery(Str("a"), Str("b")),
    <<Pair("name", Obj("$eq", <<Str("a")>>))>>,
    <<Pair("name", Obj("$ne", <<Str("a")>>))>>,
    <<Pair("name", Obj("$near", <<Str("a")>>))>> }

\* An update object: whether it has a $set key, the members of $set, and whether
\* it has another top-level key beside it (such as $inc).
Update(hasSet, set, extra) == [hasSet |-> hasSet, set |-> set, extra |-> extra]

UpdatePool ==
  { Update(TRUE, <<Pair("name", Str("b"))>>, FALSE),
    Update(TRUE, <<Pair("_id", Str("b"))>>, FALSE),
    Update(TRUE, <<Pair("name", Str("b")), Pair("age", Num(1))>>, FALSE),
    Update(TRUE, <<Pair("name", Str("b"))>>, TRUE),
    Update(FALSE, <<>>, TRUE) }

\* ------------------------------------------------------------------- state
\* db:    the connection's tables, by collection name: whether the table exists
\*        and its rows (_id, document) in rowid order.
\* uuids: how many identifiers uuidv4 has handed out that were stored.
\* last:  the latest call: its name, arguments and outcome, and the table it was
\*        made on as it stood before the call.
\* calls: the number of calls made so far.
VARIABLES db, uuids, last, calls

vars == <<db, uuids, last, calls>>

NoTable == [exists |-> FALSE, rows |-> <<>>]

EmptyTable == [exists |-> TRUE, rows |-> <<>>]

Row(id, blob) == [_id |-> id, document |-> blob]

Call(op, c, docs, q, upd, res, pre) ==
  [op |-> op, c |-> c, docs |-> docs, q |-> q, upd |-> upd, res |-> res, pre |-> pre,
   pipeline |-> <<>>, newName |-> ""]

NoUpdate == Update(FALSE, <<>>, FALSE)

Init ==
  /\ db = [c \in Names |-> NoTable]
  /\ uuids = 0
  /\ calls = 0
  /\ last = Call("init", "c1", <<>>, <<>>, NoUpdate, Ack, NoTable)

\* ------------------------------------------------------------------- reads
\* The WHERE clause built from a query: one `json_extract(document, '$.key') = ?`
\* per member, joined by AND, with the member's value bound to it.
Matches(row, q) ==
  \A i \in 1..Len(q) : SqlEq(json_extract(row.document, q[i].k), Bind(q[i].v))

Matching(rows, q) == {i \in 1..Len(rows) : Matches(rows[i], q)}

AllBindable(obj) == \A i \in 1..Len(obj) : Bindable(obj[i].v)

\* What stmt.all(...params) throws when a parameter cannot be bound: a TypeError
\* for a value of no SQL type; a plain object is read as a set of named
\* parameters, binds nothing, and leaves the statement short of values.
BindFailure(obj) ==
  IF \E i \in 1..Len(obj) : ~Bindable(obj[i].v) /\ obj[i].v.t # "object"
    THEN TypeError ELSE RangeError

\* { _id: row._id, ...JSON.parse(row.document) }
RowToDocument(row) ==
  Spread(<<Pair("_id", Str(row._id))>>, JSONparse(row.document))

\* The body of find's try block: prepare, bind, all(), map.
findTry(c, q) ==
  IF ~db[c].exists THEN Thrown(NoSuchTable)
  ELSE IF ~AllBindable(q) THEN Thrown(BindFailure(q))
  ELSE LET sel == SelectSeq(db[c].rows, LAMBDA r : Matches(r, q))
       IN Documents([i \in 1..Len(sel) |-> RowToDocument(sel[i])])

\* find with a catch that swallows every failure.
findCatchAll(c, q) ==
  LET r == findTry(c, q)
  IN IF r.kind = "err" THEN Documents(<<>>) ELSE r

find(c, q) ==
  LET r == findTry(c, q)
  IN IF r.kind = "err" /\ r.err = NoSuchTable THEN Documents(<<>>) ELSE r

findOne(c, q) ==
  LET r == find(c, q)
  IN IF r.kind = "err" THEN UndefinedResult
     ELSE IF Len(r.docs) > 0 THEN Document(r.docs[1])
     ELSE NullResult

\* findById with the `WHERE _id = ?` left out: get() returns the first row.
findByIdNoWhere(c, id) ==
  IF ~db[c].exists THEN Thrown(NoSuchTable)
  ELSE IF db[c].rows = <<>> THEN NullResult
  ELSE Document(RowToDocument(db[c].rows[1]))

findById(c, id) ==
  IF ~db[c].exists THEN Thrown(NoSuchTable)
  ELSE LET hit == {i \in 1..Len(db[c].rows) : db[c].rows[i]._id = id}
       IN IF hit = {} THEN NullResult
          ELSE Document(RowToDocument(db[c].rows[CHOOSE i \in hit : TRUE]))

\* countDocuments that always writes the WHERE keyword, as deleteOne does.
countDocumentsAlwaysWhere(c, q) ==
  IF q = <<>> THEN Thrown(SyntaxError)
  ELSE IF ~db[c].exists THEN Thrown(NoSuchTable)
  ELSE IF ~AllBindable(q) THEN Thrown(TypeError)
  ELSE Number(Cardinality(Matching(db[c].rows, q)))

countDocuments(c, q) ==
  IF ~db[c].exists THEN Thrown(NoSuchTable)
  ELSE IF ~AllBindable(q) THEN Thrown(TypeError)
  ELSE Number(Cardinality(Matching(db[c].rows, q)))

\* Array.isArray(value.$in); reading $in of null or undefined is a TypeError.
HasInArray(v) == v.t = "object" /\ v.s = "$in" /\ v.a[1].t = "array"

\* json_extract(document, '$.key') IN (?, ...): equal to one of the values bound.
SqlIn(x, operands) == \E i \in 1..Len(operands) : SqlEq(x, Bind(operands[i]))

findWithIn(c, q) ==
  IF \E i \in 1..Len(q) : q[i].v.t \in {"null", "undefined"} THEN Thrown(TypeError)
  ELSE IF \E i \in 1..Len(q) : ~HasInArray(q[i].v) THEN Thrown(UnsupportedOperator)
  ELSE IF q = <<>> THEN Thrown(SyntaxError)
  ELSE IF ~db[c].exists THEN Thrown(NoSuchTable)
  ELSE IF \E i \in 1..Len(q) : \E j \in 1..Len(q[i].v.a[1].a) : ~Bindable(q[i].v.a[1].a[j])
    THEN Thrown(TypeError)
  ELSE LET sel == SelectSeq(db[c].rows, LAMBDA r :
                    \A i \in 1..Len(q) :
                      SqlIn(json_extract(r.document, q[i].k), q[i].v.a[1].a))
       IN Documents([i \in 1..Len(sel) |-> JSONparse(sel[i].document)])

\* The characters of the strings a pattern or a tested value can be.
Characters(x) ==
  CASE x = "" -> <<>>
    [] x = "a" -> <<"a">>
    [] x = "b" -> <<"b">>
    [] x = "1" -> <<"1">>
    [] x = "null" -> <<"n", "u", "l", "l">>

\* The string the REGEXP callback's argument becomes in new RegExp(pattern) and
\* in test(value): a text is itself, NULL arrives as null and reads "null".
ToText(x) ==
  CASE x.t = "TEXT" -> x.s
    [] x.t = "INTEGER" /\ x.n = 1 -> "1"
    [] x.t = "NULL" -> "null"

\* new RegExp(pattern).test(value) ? 1 : 0. A pattern without metacharacters, as
\* all of RegexQueries are, is a valid one and matches the texts that contain it.
REGEXP(pattern, value) ==
  LET p == Characters(ToText(pattern))
      v == Characters(ToText(value))
  IN IF \E k \in 0..(Len(v) - Len(p)) : SubSeq(v, k + 1, k + Len(p)) = p THEN 1 ELSE 0

\* if (value.$regex); reading $regex of null or undefined is a TypeError.
HasRegex(v) == v.t = "object" /\ v.s = "$regex" /\ Truthy(v.a[1])

findWithRegex(c, q) ==
  IF \E i \in 1..Len(q) : q[i].v.t \in {"null", "undefined"} THEN Thrown(TypeError)
  ELSE IF \E i \in 1..Len(q) : ~HasRegex(q[i].v) THEN Thrown(UnsupportedOperatorForKey)
  ELSE IF q = <<>> THEN Thrown(SyntaxError)
  ELSE IF ~db[c].exists THEN Thrown(NoSuchTable)
  ELSE IF \E i \in 1..Len(q) : ~Bindable(q[i].v.a[1]) THEN Thrown(TypeError)
  ELSE LET sel == SelectSeq(db[c].rows, LAMBDA r :
                    \A i \in 1..Len(q) :
                      REGEXP(Bind(q[i].v.a[1]), json_extract(r.document, q[i].k)) = 1)
       IN Documents([i \in 1..Len(sel) |-> JSONparse(sel[i].document)])

\* ------------------------------------------------------------------ writes
\* uuidv4(): a value no earlier call returned.
uuidv4(u) == UuidPool[u + 1]

\* document._id || uuidv4()
NeedsUuid(doc) == ~Truthy(Get(doc, "_id"))

ResolveId(doc, u) == IF NeedsUuid(doc) THEN uuidv4(u) ELSE Get(doc, "_id").s

\* The row an insert binds: (id, JSON.stringify({ ...document, _id: id })).
InsertedRow(doc, id) == Row(id, JSONstringify(Assign(doc, "_id", Str(id))))

\* INSERT OR REPLACE: a row with the same primary key is overwritten.
InsertOrReplaceRow(rows, row) ==
  IF \E i \in 1..Len(rows) : rows[i]._id = row._id
    THEN [ok |-> TRUE,
          rows |-> [i \in 1..Len(rows) |-> IF rows[i]._id = row._id THEN row ELSE rows[i]]]
    ELSE [ok |-> TRUE, rows |-> Append(rows, row)]

\* INSERT INTO c (_id, document) VALUES (?, ?) under the primary key constraint.
InsertRow(rows, row) ==
  IF \E i \in 1..Len(rows) : rows[i]._id = row._id
    THEN [ok |-> FALSE, rows |-> rows]
    ELSE [ok |-> TRUE, rows |-> Append(rows, row)]

\* The loop of insertMany: the rows as the statements leave them, whether every
\* statement ran, and the number of identifiers generated.
RECURSIVE BatchInserts(_, _, _)
BatchInserts(rows, docs, u) ==
  IF docs = <<>> THEN [ok |-> TRUE, rows |-> rows, u |-> u]
  ELSE LET doc == docs[1]
           u2 == IF NeedsUuid(doc) THEN u + 1 ELSE u
           r == InsertRow(rows, InsertedRow(doc, ResolveId(doc, u)))
       IN IF r.ok THEN BatchInserts(r.rows, Tail(docs), u2)
          ELSE [ok |-> FALSE, rows |-> r.rows, u |-> u2]

\* The loop run outside a transaction: what ran before the failure stays.
NoTransaction(before, outcome) == outcome.rows

\* db.transaction(fn)(): commits what fn wrote, or rolls back when fn throws.
Transaction(before, outcome) == IF outcome.ok THEN outcome.rows ELSE before

\* The statement without its LIMIT 1: it touches every matching row.
NoLimit(S) == {S}

\* LIMIT 1 without ORDER BY: the statement touches one of the matching rows,
\* whichever the engine picks, or none when nothing matches.
Limit1(S) == IF S = {} THEN {{}} ELSE {{i} : i \in S}

\* A DELETE that drops the first row in place of the selected one.
RemoveFirst(rows, S) == IF S = {} THEN rows ELSE Tail(rows)

RemoveAt(rows, S) ==
  LET keep == {i \in 1..Len(rows) : i \notin S}
      F[i \in 0..Len(rows)] ==
        IF i = 0 THEN <<>>
        ELSE IF i \in keep THEN Append(F[i - 1], rows[i]) ELSE F[i - 1]
  IN F[Len(rows)]

\* SET document = json_set(document, '$.f1', ?), document = json_set(document, '$.f2', ?):
\* every assignment names the same column, and the rightmost one is the one applied.
SetClause(blob, set) == json_set(blob, set[Len(set)].k, Bind(set[Len(set)].v))

\* One more call, MaxCalls calls in all.
Tick == calls < MaxCalls /\ calls' = calls + 1

createCollection(c) ==
  /\ Tick
  /\ db' = IF db[c].exists THEN db ELSE [db EXCEPT ![c] = EmptyTable]
  /\ last' = Call("createCollection", c, <<>>, <<>>, NoUpdate, UndefinedResult, db[c])
  /\ UNCHANGED uuids

\* DELETE FROM c: the rows go, the table stays.
DeleteFrom(tables, c) == [tables EXCEPT ![c].rows = <<>>]

\* DROP TABLE IF EXISTS c
DropTableIfExists(tables, c) == [tables EXCEPT ![c] = NoTable]

dropCollection(c) ==
  /\ Tick
  /\ db' = DropTableIfExists(db, c)
  /\ last' = Call("dropCollection", c, <<>>, <<>>, NoUpdate, Ack, db[c])
  /\ UNCHANGED uuids

\* The table copied under the new name, the old one left in place.
CopyTable(tables, oldName, newName) == [tables EXCEPT ![newName] = tables[oldName]]

\* ALTER TABLE oldName RENAME TO newName
AlterTableRename(tables, oldName, newName) ==
  [tables EXCEPT ![newName] = tables[oldName], ![oldName] = NoTable]

renameCollection(oldName, newName) ==
  LET res == IF ~db[oldName].exists THEN Thrown(NoSuchTable)
             ELSE IF db[newName].exists THEN Thrown(TableExists)
             ELSE Ack
  IN /\ Tick
     /\ db' = IF res.kind = "ack" THEN AlterTableRename(db, oldName, newName) ELSE db
     /\ last' = [Call("renameCollection", oldName, <<>>, <<>>, NoUpdate, res, db[oldName])
                  EXCEPT !.newName = newName]
     /\ UNCHANGED uuids

insertOne(c, doc) ==
  /\ Tick
  /\ uuids < Len(UuidPool)
  /\ LET id == ResolveId(doc, uuids)
         r == InsertRow(db[c].rows, InsertedRow(doc, id))
         res == IF ~db[c].exists THEN Thrown(NoSuchTable)
                ELSE IF ~r.ok THEN Thrown(DuplicateKey)
                ELSE AckId(id)
     IN /\ db' = IF res.kind = "ack" THEN [db EXCEPT ![c].rows = r.rows] ELSE db
        /\ uuids' = IF NeedsUuid(doc) /\ res.kind = "ack" THEN uuids + 1 ELSE uuids
        /\ last' = Call("insertOne", c, <<doc>>, <<>>, NoUpdate, res, db[c])

insertMany(c, docs) ==
  /\ Tick
  /\ uuids + Len(docs) <= Len(UuidPool)
  /\ LET out == BatchInserts(db[c].rows, docs, uuids)
         res == IF ~db[c].exists THEN Thrown(NoSuchTable)
                ELSE IF ~out.ok THEN Thrown(DuplicateKey)
                ELSE AckN(Len(docs))
     IN /\ db' = IF db[c].exists
                   THEN [db EXCEPT ![c].rows = Transaction(db[c].rows, out)]
                   ELSE db
        /\ uuids' = IF res.kind = "ack" THEN out.u ELSE uuids
        /\ last' = Call("insertMany", c, docs, <<>>, NoUpdate, res, db[c])

updateOne(c, q, update) ==
  LET fail == IF ~update.hasSet THEN OnlySet
              ELSE IF update.set = <<>> \/ q = <<>> THEN SyntaxError
              ELSE IF ~db[c].exists THEN NoSuchTable
              ELSE IF ~AllBindable(update.set) \/ ~AllBindable(q) THEN TypeError
              ELSE ""
  IN /\ Tick
     /\ IF fail # ""
       THEN /\ last' = Call("updateOne", c, <<>>, q, update, Thrown(fail), db[c])
            /\ UNCHANGED <<db, uuids>>
       ELSE \E S \in Limit1(Matching(db[c].rows, q)) :
              /\ db' = [db EXCEPT ![c].rows =
                          [i \in 1..Len(@) |->
                             IF i \in S
                               THEN Row(@[i]._id, SetClause(@[i].document, update.set))
                               ELSE @[i]]]
              /\ last' = Call("updateOne", c, <<>>, q, update, AckN(Cardinality(S)), db[c])
              /\ UNCHANGED uuids

deleteOne(c, q) ==
  LET fail == IF q = <<>> THEN SyntaxError
              ELSE IF ~db[c].exists THEN NoSuchTable
              ELSE IF ~AllBindable(q) THEN TypeError
              ELSE ""
  IN /\ Tick
     /\ IF fail # ""
       THEN /\ last' = Call("deleteOne", c, <<>>, q, NoUpdate, Thrown(fail), db[c])
            /\ UNCHANGED <<db, uuids>>
       ELSE \E S \in Limit1(Matching(db[c].rows, q)) :
              /\ db' = [db EXCEPT ![c].rows = RemoveAt(@, S)]
              /\ last' = Call("deleteOne", c, <<>>, q, NoUpdate, AckN(Cardinality(S)), db[c])
              /\ UNCHANGED uuids

Next ==
  \/ \E c \in Names : createCollection(c)
  \/ \E c \in Names : dropCollection(c)
  \/ \E o \in Names, n \in Names : renameCollection(o, n)
  \/ \E c \in Names, doc \in DocPool : insertOne(c, doc)
  \/ \E c \in Names, docs \in BatchPool : insertMany(c, docs)
  \/ \E c \in Names, q \in QueryPool, u \in UpdatePool : updateOne(c, q, u)
  \/ \E c \in Names, q \in QueryPool : deleteOne(c, q)

Spec == Init /\ [][Next]_vars

\* --------------------------------------------------------------- aggregate
\* A pipeline is a sequence of stages, each an object with one key: $match with
\* its predicate, $group with its _id path ("" when it has none) and its
\* aggregations, or a stage of another name.
MatchStage(m) == [stage |-> "$match", match |-> m, id |-> "", aggs |-> <<>>]

GroupStage(id, aggs) == [stage |-> "$group", match |-> <<>>, id |-> id, aggs |-> aggs]

OtherStage(name) == [stage |-> name, match |-> <<>>, id |-> "", aggs |-> <<>>]

\* field: { op: f } inside $group.
Agg(field, op, f) == [field |-> field, op |-> op, f |-> f]

\* The keys of comparisonOperators; they stand for =, >, >=, <, <=, !=.
comparisonOperators == {"$eq", "$gt", "$gte", "$lt", "$lte", "$ne"}

\* The keys of validAggregates; they stand for SUM, AVG, COUNT, MAX, MIN.
validAggregates == {"$sum", "$avg", "$count", "$max", "$min"}

UnsupportedComparison == "Unsupported comparison operator"

GroupNeedsId == "$group stage must include an _id field for grouping."

UnsupportedAggregation == "Unsupported aggregation operator"

\* `json_extract(document, '$.key') op ?` with operand pushed onto params.
Condition(key, op, operand) == [key |-> key, op |-> op, operand |-> operand]

\* One entry of stage.$match: an operator object gives its first entry's
\* operator and operand, anything else is compared with =.
MatchCondition(p) ==
  IF p.v.t = "object" THEN Condition(p.k, p.v.s, p.v.a[1])
  ELSE Condition(p.k, "$eq", p.v)

\* A column of the SELECT clause: `json_extract(document, '$._id') AS groupKey`
\* (op "key") or `OP(...) AS field`.
OutputField(alias, op, path) == [alias |-> alias, op |-> op, path |-> path]

\* What the loop over the pipeline has built: the WHERE clauses appended to
\* baseQuery (one per $match stage), whether groupClause is set and its path,
\* outputFields, and the error thrown, if any.
Built(wheres, grouped, groupBy, outputFields, err) ==
  [wheres |-> wheres, grouped |-> grouped, groupBy |-> groupBy,
   outputFields |-> outputFields, err |-> err]

NothingBuilt == Built(<<>>, FALSE, "", <<>>, "")

\* if (stage.$match): baseQuery += ` WHERE ${conditions}`.
matchStage(m, acc) ==
  IF \E i \in 1..Len(m) : m[i].v.t = "object" /\ m[i].v.s \notin comparisonOperators
    THEN [acc EXCEPT !.err = UnsupportedComparison]
    ELSE [acc EXCEPT !.wheres = Append(@, [i \in 1..Len(m) |-> MatchCondition(m[i])])]

\* if (stage.$group): groupClause is set anew, outputFields grows.
groupStage(stage, acc) ==
  IF stage.id = "" THEN [acc EXCEPT !.err = GroupNeedsId]
  ELSE IF \E i \in 1..Len(stage.aggs) : stage.aggs[i].op \notin validAggregates
    THEN [acc EXCEPT !.err = UnsupportedAggregation]
  ELSE [acc EXCEPT
          !.grouped = TRUE,
          !.groupBy = stage.id,
          !.outputFields =
            @ \o <<OutputField("groupKey", "key", stage.id)>>
              \o [i \in 1..Len(stage.aggs) |->
                    OutputField(stage.aggs[i].field, stage.aggs[i].op, stage.aggs[i].f)]]

\* pipeline.forEach: a stage that is neither $match nor $group adds nothing.
RECURSIVE forEachStage(_, _)
forEachStage(pipeline, acc) ==
  IF pipeline = <<>> \/ acc.err # "" THEN acc
  ELSE LET stage == pipeline[1]
       IN forEachStage(Tail(pipeline),
            CASE stage.stage = "$match" -> matchStage(stage.match, acc)
              [] stage.stage = "$group" -> groupStage(stage, acc)
              [] OTHER -> acc)

\* SQLite's BINARY collation on the strings the pools hold.
Collation ==
  <<"", "MEX", "USA", "a", "b", "u1", "u10", "u11", "u12", "u2", "u3", "u4",
    "u5", "u6", "u7", "u8", "u9">>

Rank(x) == CHOOSE i \in 1..Len(Collation) : Collation[i] = x

\* SQL `a < b` on values without affinity: numbers sort before text.
SqlLess(a, b) ==
  \/ a.t = "INTEGER" /\ b.t = "INTEGER" /\ a.n < b.n
  \/ a.t = "INTEGER" /\ b.t = "TEXT"
  \/ a.t = "TEXT" /\ b.t = "TEXT" /\ Rank(a.s) < Rank(b.s)

\* `a op b` in a WHERE clause: a comparison with NULL is not true.
SqlCompare(op, a, b) ==
  /\ a.t # "NULL"
  /\ b.t # "NULL"
  /\ CASE op = "$eq" -> a = b
       [] op = "$ne" -> a # b
       [] op = "$gt" -> SqlLess(b, a)
       [] op = "$gte" -> ~SqlLess(a, b)
       [] op = "$lt" -> SqlLess(a, b)
       [] op = "$lte" -> ~SqlLess(b, a)

\* The rows of the inner SELECT with its WHERE clause left out.
SelectAll(rows, conditions) == rows

\* SELECT document FROM c WHERE conditions.
SelectWhere(rows, conditions) ==
  SelectSeq(rows, LAMBDA r :
    \A i \in 1..Len(conditions) :
      SqlCompare(conditions[i].op, json_extract(r.document, conditions[i].key),
                 Bind(conditions[i].operand)))

\* What better-sqlite3 hands back for a column: a string, a number or null.
ColumnToJs(x) ==
  CASE x.t = "TEXT" -> Str(x.s)
    [] x.t = "INTEGER" -> Num(x.n)
    [] OTHER -> Null

\* The document column as it is returned when nothing is selected from it: the
\* JSON text, a string; a holds the members the text spells.
Text(blob) == [t |-> "string", s |-> "", n |-> 0, a |-> blob.json]

\* COALESCE(json_extract(document, '$.f'), 0)
Coalesce0(x) == IF x.t = "NULL" THEN SqlInt(0) ELSE x

\* SUM adds numbers; text that spells no number adds 0.
RECURSIVE SUM(_)
SUM(xs) ==
  IF xs = <<>> THEN 0
  ELSE (IF xs[1].t = "INTEGER" THEN xs[1].n ELSE 0) + SUM(Tail(xs))

\* AVG: SUM / COUNT; a holds the remainder and the divisor when it is not whole.
AVG(xs) ==
  LET q == SUM(xs) \div Len(xs)
      r == SUM(xs) % Len(xs)
  IN [t |-> "number", s |-> "", n |-> q,
      a |-> IF r = 0 THEN <<>> ELSE <<Num(r), Num(Len(xs))>>]

MAX(xs) == CHOOSE x \in {xs[i] : i \in 1..Len(xs)} : \A i \in 1..Len(xs) : ~SqlLess(x, xs[i])

MIN(xs) == CHOOSE x \in {xs[i] : i \in 1..Len(xs)} : \A i \in 1..Len(xs) : ~SqlLess(xs[i], x)

\* The value of one output column for a group of rows. A bare column takes its
\* value from a row of the group; the one that is the GROUP BY expression is
\* the same in all of them.
ColumnValue(field, members) ==
  LET xs == [i \in 1..Len(members) |->
               Coalesce0(json_extract(members[i].document, field.path))]
  IN CASE field.op = "key" -> ColumnToJs(json_extract(members[1].document, field.path))
       [] field.op = "$count" -> Num(Len(members))
       [] field.op = "$sum" -> Num(SUM(xs))
       [] field.op = "$avg" -> AVG(xs)
       [] field.op = "$max" -> ColumnToJs(MAX(xs))
       [] field.op = "$min" -> ColumnToJs(MIN(xs))

\* The row object: one property per column alias, a later column of the same
\* alias replacing the value of an earlier one.
RECURSIVE RowObject(_, _, _)
RowObject(obj, fields, members) ==
  IF fields = <<>> THEN obj
  ELSE RowObject(Assign(obj, fields[1].alias, ColumnValue(fields[1], members)),
                 Tail(fields), members)

\* The arrangements of a set in a sequence.
Orderings(S) ==
  {f \in [1..Cardinality(S) -> S] : \A i, j \in 1..Cardinality(S) : i # j => f[i] # f[j]}

\* GROUP BY json_extract(document, '$.path'): one row per value of the
\* expression, NULL being one of the values; without ORDER BY the engine
\* returns the groups in an order of its choosing.
GroupBy(rows, path, outputFields) ==
  LET key(r) == json_extract(r.document, path)
      keys == {key(rows[i]) : i \in 1..Len(rows)}
      group(k) == RowObject(<<>>, outputFields, SelectSeq(rows, LAMBDA r : key(r) = k))
  IN {[i \in 1..Len(o) |-> group(o[i])] : o \in Orderings(keys)}

\* db.prepare(finalQuery) and stmt.all(...params): the results the call can
\* return or the error it throws.
stmtAll(c, acc) ==
  LET params == [i \in 1..Len(acc.wheres[1]) |-> Pair("?", acc.wheres[1][i].operand)]
  IN IF Len(acc.wheres) > 1 \/ (\E w \in 1..Len(acc.wheres) : acc.wheres[w] = <<>>)
       THEN {Thrown(SyntaxError)}
     ELSE IF ~db[c].exists THEN {Thrown(NoSuchTable)}
     ELSE IF acc.wheres # <<>> /\ ~AllBindable(params) THEN {Thrown(BindFailure(params))}
     ELSE LET rows == IF acc.wheres = <<>> THEN db[c].rows
                      ELSE SelectWhere(db[c].rows, acc.wheres[1])
          IN IF acc.outputFields = <<>>
               THEN {Documents([i \in 1..Len(rows) |->
                                  <<Pair("document", Text(rows[i].document))>>])}
               ELSE {Documents(ds) : ds \in GroupBy(rows, acc.groupBy, acc.outputFields)}

\* What aggregate(collectionName, pipeline) can return or throw in this state.
aggregateReturns(c, pipeline) ==
  LET acc == forEachStage(pipeline, NothingBuilt)
  IN IF acc.err # "" THEN {Thrown(acc.err)} ELSE stmtAll(c, acc)

aggregate(c, pipeline) ==
  /\ \E r \in aggregateReturns(c, pipeline) :
       last' = [Call("aggregate", c, <<>>, <<>>, NoUpdate, r, db[c])
                  EXCEPT !.pipeline = pipeline]
  /\ UNCHANGED <<db, uuids, calls>>

\* The documents of the collections aggregate is run on.
AggDocs ==
  { <<Pair("country", Str("USA")), Pair("age", Num(45))>>,
    <<Pair("country", Str("USA")), Pair("age", Num(15))>>,
    <<Pair("country", Str("MEX")), Pair("age", Num(25))>>,
    <<Pair("country", Str("MEX"))>>,
    <<Pair("age", Num(55))>> }

\* Six documents of two countries, in the shape of the aggregation test's.
ExampleDocs ==
  << <<Pair("age", Num(45)), Pair("country", Str("USA"))>>,
     <<Pair("age", Num(55)), Pair("country", Str("USA"))>>,
     <<Pair("age", Num(15)), Pair("country", Str("USA"))>>,
     <<Pair("age", Num(25)), Pair("country", Str("MEX"))>>,
     <<Pair("age", Num(25)), Pair("country", Str("MEX"))>>,
     <<Pair("age", Num(15)), Pair("country", Str("MEX"))>> >>

TablePool == UNION {[1..n -> AggDocs] : n \in 0..MaxAggRows} \cup {ExampleDocs}

MatchPool ==
  { <<Pair("age", Obj("$gt", <<Num(15)>>))>>,
    <<Pair("age", Obj("$lte", <<Num(25)>>))>>,
    <<Pair("country", Str("USA"))>>,
    <<Pair("country", Str("MEX"))>> }

SumAndCount(f) == <<Agg("s", "$sum", f), Agg("n", "$count", "1")>>

\* [{ $match: M }, { $group: { _id: g, s: { $sum: f }, n: { $count: 1 } } }]
MatchGroupPipelines ==
  { <<MatchStage(m), GroupStage(g, SumAndCount("age"))>> :
      m \in MatchPool, g \in {"country", "age"} }

\* Pipelines of two $match stages, without and with a $group stage after them.
TwoMatchPipelines ==
  { <<MatchStage(<<Pair("age", Obj("$gt", <<Num(15)>>))>>),
      MatchStage(<<Pair("country", Str("USA"))>>)>>,
    <<MatchStage(<<Pair("age", Obj("$gt", <<Num(15)>>))>>),
      MatchStage(<<Pair("country", Str("USA"))>>),
      GroupStage("country", SumAndCount("age"))>> }

\* The same with the two predicates in one $match stage.
OneMatchPipelines ==
  { <<MatchStage(<<Pair("age", Obj("$gt", <<Num(15)>>)), Pair("country", Str("USA"))>>)>>,
    <<MatchStage(<<Pair("age", Obj("$gt", <<Num(15)>>)), Pair("country", Str("USA"))>>),
      GroupStage("country", SumAndCount("age"))>> }

\* Pipelines with a stage that is neither $match nor $group.
OtherStagePipelines ==
  { <<OtherStage("$sort")>>,
    <<MatchStage(<<Pair("country", Str("USA"))>>), OtherStage("$limit")>> }

\* A pipeline of two $group stages with aggregates of different names.
TwoGroupPipelines ==
  { <<GroupStage("age", <<Agg("s", "$sum", "age")>>),
      GroupStage("country", <<Agg("n", "$count", "1")>>)>> }

PipelinePool ==
  MatchGroupPipelines \cup TwoMatchPipelines \cup OneMatchPipelines \cup
  OtherStagePipelines \cup TwoGroupPipelines \cup
  { <<>>, <<GroupStage("country", SumAndCount("age"))>> }

\* The connection after createCollection("c1") and insertMany("c1", docs).
InitAggregate ==
  \E docs \in TablePool :
    LET r == BatchInserts(<<>>, docs, 0)
    IN /\ db = [c \in Names |-> IF c = "c1" THEN [exists |-> TRUE, rows |-> r.rows]
                                ELSE NoTable]
       /\ uuids = r.u
       /\ calls = 2
       /\ last = Call("insertMany", "c1", docs, <<>>, NoUpdate, AckN(Len(docs)), EmptyTable)

NextAggregate == \E c \in Names, pipeline \in PipelinePool : aggregate(c, pipeline)

SpecAggregate == InitAggregate /\ [][NextAggregate]_vars

\* ------------------------------------------------------------------ claims
PrimaryKeys(rows) == {rows[i]._id : i \in 1..Len(rows)}

\* The explicit identifier of element i of a batch conflicts: it is already a
\* primary key of the collection, or an earlier element carries it too.
Conflicts(rows, docs, i) ==
  /\ ~NeedsUuid(docs[i])
  /\ \/ Get(docs[i], "_id").s \in PrimaryKeys(rows)
     \/ \E j \in 1..(i - 1) : Get(docs[j], "_id") = Get(docs[i], "_id")

\* C1: insertMany is all-or-nothing: when any element violates the primary key
\* constraint the call fails and the collection is exactly as before; when the
\* call acknowledges, insertedCount is the batch length and every element is stored.
C1_InsertManyAllOrNothing ==
  (last.op = "insertMany" /\ last.pre.exists) =>
    LET pre == last.pre.rows
        now == db[last.c].rows
        docs == last.docs
    IN /\ (\E i \in 1..Len(docs) : Conflicts(pre, docs, i)) => last.res.kind = "err"
       /\ last.res.kind = "err" => db[last.c] = last.pre
       /\ last.res.kind = "ack" =>
            /\ last.res.n = Len(docs)
            /\ Len(now) = Len(pre) + Len(docs)
            /\ SubSeq(now, 1, Len(pre)) = pre
            /\ \A i \in 1..Len(docs) :
                 SameDocument(RowToDocument(now[Len(pre) + i]),
                              Assign(docs[i], "_id", Str(now[Len(pre) + i]._id)))

\* A batch of two whose first element alone would have been inserted failed on its
\* second element.
C1_Witness ==
  /\ last.op = "insertMany"
  /\ last.pre.exists
  /\ last.res = Thrown(DuplicateKey)
  /\ Len(last.docs) = 2
  /\ ~Conflicts(last.pre.rows, last.docs, 1)
  /\ db[last.c].rows # <<>>

\* C2: every stored row's primary key equals the _id member of its blob.
C2_PrimaryKeyEqualsBlobId ==
  \A c \in Names : \A i \in 1..Len(db[c].rows) :
    Get(JSONparse(db[c].rows[i].document), "_id") = Str(db[c].rows[i]._id)

\* C3: insertOne whose identifier is already a primary key of the collection fails
\* with a duplicate-key error and leaves the collection as it was.
C3_InsertOneDuplicateKey ==
  ( /\ last.op = "insertOne"
    /\ last.pre.exists
    /\ ~NeedsUuid(last.docs[1])
    /\ Get(last.docs[1], "_id").s \in PrimaryKeys(last.pre.rows) ) =>
      /\ last.res = Thrown(DuplicateKey)
      /\ db[last.c] = last.pre

\* The identifier of an existing document was inserted again with other content.
C3_Witness ==
  /\ last.op = "insertOne"
  /\ last.pre.exists
  /\ ~NeedsUuid(last.docs[1])
  /\ Get(last.docs[1], "_id").s \in PrimaryKeys(last.pre.rows)
  /\ \E i \in 1..Len(last.pre.rows) :
       /\ last.pre.rows[i]._id = Get(last.docs[1], "_id").s
       /\ ~SameDocument(RowToDocument(last.pre.rows[i]), last.docs[1])

\* C4: the insertedId of a document inserted without an _id is the _id of no other
\* document of the collection, and findById on it returns a document with that _id.
C4_GeneratedIdUnique ==
  ( /\ last.op = "insertOne"
    /\ last.res.kind = "ack"
    /\ ~HasKey(last.docs[1], "_id") ) =>
      LET rows == db[last.c].rows
          id == last.res.id
          byId == findById(last.c, id)
      IN /\ id # ""
         /\ Cardinality({i \in 1..Len(rows) :
                           \/ rows[i]._id = id
                           \/ Get(RowToDocument(rows[i]), "_id") = Str(id)}) = 1
         /\ byId.kind = "doc"
         /\ Get(byId.docs[1], "_id") = Str(id)

\* The inserted document joined another one whose identifier was generated too.
C4_Witness ==
  /\ last.op = "insertOne"
  /\ last.res.kind = "ack"
  /\ ~HasKey(last.docs[1], "_id")
  /\ \E i \in 1..Len(last.pre.rows) : last.pre.rows[i]._id = UuidPool[1]

\* Some other row of the collection holds the field values of doc.
OtherRowMatches(c, id, doc) ==
  \E i \in 1..Len(db[c].rows) : db[c].rows[i]._id # id /\ Matches(db[c].rows[i], doc)

\* C5: after insertOne(c, doc) returned insertedId i, findOne(c, doc) returns doc
\* plus _id = i, provided no other document of c holds those field values.
C5_RoundTrip ==
  ( /\ last.op = "insertOne"
    /\ last.res.kind = "ack"
    /\ ~HasKey(last.docs[1], "_id")
    /\ ~OtherRowMatches(last.c, last.res.id, last.docs[1]) ) =>
      LET found == findOne(last.c, last.docs[1])
      IN /\ found.kind = "doc"
         /\ SameDocument(found.docs[1], Assign(last.docs[1], "_id", Str(last.res.id)))

CountIsFindLength(c) ==
  /\ find(c, <<>>).kind = "docs"
  /\ countDocuments(c, <<>>) = Number(Len(find(c, <<>>).docs))

\* C6, as stated: in every state the operations reach, a dropped or renamed-away
\* collection included, countDocuments(name) is the length of find(name, {}).
C6_CountEqualsFindAnyState ==
  \A c \in Names :
    ( \/ db[c].exists
      \/ /\ last.c = c
         /\ last.op \in {"dropCollection", "renameCollection"}
         /\ last.res.kind = "ack"
         /\ last.pre.exists ) => CountIsFindLength(c)

\* C6, amended: for every collection that exists, countDocuments(name) is the
\* length of find(name, {}).
C6_CountEqualsFindExisting == \A c \in Names : db[c].exists => CountIsFindLength(c)

\* A collection holds two documents or more after an insert or a rename.
C6_Witness ==
  \E c \in Names :
    /\ db[c].exists
    /\ Len(db[c].rows) >= 2
    /\ last.c = c
    /\ last.op \in {"insertOne", "insertMany", "renameCollection"}

\* C7: find on a collection that does not exist returns an empty sequence; another
\* failure inside find reaches the caller; and the other operations fail on a
\* missing collection.
C7_FindSoftFail ==
  /\ \A c \in Names : \A q \in QueryPool :
       /\ ~db[c].exists => find(c, q) = Documents(<<>>)
       /\ (db[c].exists /\ ~AllBindable(q)) => find(c, q) = Thrown(TypeError)
  /\ \A c \in Names : ~db[c].exists =>
       /\ countDocuments(c, <<>>) = Thrown(NoSuchTable)
       /\ \A id \in {"a", "b", UuidPool[1]} : findById(c, id) = Thrown(NoSuchTable)
  /\ ( /\ last.op \in {"insertOne", "insertMany", "updateOne", "deleteOne", "renameCollection"}
       /\ ~last.pre.exists ) => last.res.kind = "err"

\* One collection was dropped or renamed away with documents in it, another exists.
C7_Witness ==
  \E c \in Names, d \in Names :
    /\ ~db[c].exists
    /\ db[d].exists
    /\ last.c = c
    /\ last.op \in {"dropCollection", "renameCollection"}
    /\ last.res.kind = "ack"
    /\ last.pre.rows # <<>>

\* C8: findOne returns the first element of find's result, or null when it is
\* empty; its outcome is a document or null; when find fails, it fails the same way.
C8_FindOneFollowsFind ==
  \A c \in Names : \A q \in QueryPool :
    LET r == find(c, q)
        o == findOne(c, q)
    IN /\ o.kind \in {"doc", "null", "err"}
       /\ r.kind = "err" => o = r
       /\ r.kind = "docs" =>
            o = IF Len(r.docs) > 0 THEN Document(r.docs[1]) ELSE NullResult

DeleteReturned == last.op = "deleteOne" /\ last.res.kind = "ack"

NoMatchDeletesNothing ==
  Matching(last.pre.rows, last.q) = {} => (last.res.n = 0 /\ db[last.c] = last.pre)

\* C9, as stated: after deleteOne(c, q) returns, findOne(c, q) returns null, and
\* deleteOne with no matching document returns deletedCount 0 and removes nothing.
C9_DeleteThenFindOneNull ==
  DeleteReturned =>
    /\ findOne(last.c, last.q) = NullResult
    /\ NoMatchDeletesNothing

\* C9, amended: the same, provided at most one document matched q before the call.
C9_DeleteThenFindOneNullSingle ==
  DeleteReturned =>
    /\ Cardinality(Matching(last.pre.rows, last.q)) <= 1 =>
         findOne(last.c, last.q) = NullResult
    /\ NoMatchDeletesNothing

\* The only matching document of a collection of two was deleted.
C9_Witness ==
  /\ DeleteReturned
  /\ Len(last.pre.rows) = 2
  /\ Cardinality(Matching(last.pre.rows, last.q)) = 1
  /\ last.res.n = 1

\* rows without its i-th element.
Without(rows, i) == SubSeq(rows, 1, i - 1) \o SubSeq(rows, i + 1, Len(rows))

\* C10: updateOne and deleteOne return a count of 0 or 1, 1 exactly when a document
\* matched; the affected document is a matching one and all others are unchanged.
C10_AtMostOneAffected ==
  (last.op \in {"updateOne", "deleteOne"} /\ last.res.kind = "ack") =>
    LET pre == last.pre.rows
        now == db[last.c].rows
        M == Matching(pre, last.q)
    IN /\ last.res.n \in {0, 1}
       /\ last.res.n = 1 <=> M # {}
       /\ last.res.n = 0 => now = pre
       /\ (last.res.n = 1 /\ last.op = "deleteOne") =>
            \E i \in M : now = Without(pre, i)
       /\ (last.res.n = 1 /\ last.op = "updateOne") =>
            /\ Len(now) = Len(pre)
            /\ \E i \in M : \A j \in 1..Len(pre) : j # i => now[j] = pre[j]

\* An update changed one of two documents that both satisfied the query.
C10_Witness ==
  /\ last.op = "updateOne"
  /\ last.res.kind = "ack"
  /\ Cardinality(Matching(last.pre.rows, last.q)) = 2
  /\ db[last.c].rows # last.pre.rows

\* The member of a blob as json_set would have written it from a JavaScript value.
Written(v) == JsonOfSql(Bind(v))

\* C11: updateOne with $set naming n >= 1 paths leaves, in the one matched document,
\* every named path at its replacement value and every other member as it was.
C11_EverySetPathApplied ==
  (last.op = "updateOne" /\ last.res.kind = "ack" /\ last.res.n = 1) =>
    LET pre == last.pre.rows
        now == db[last.c].rows
        set == last.upd.set
    IN \E i \in Matching(pre, last.q) :
         /\ Len(now) = Len(pre)
         /\ \A j \in 1..Len(pre) : j # i => now[j] = pre[j]
         /\ now[i]._id = pre[i]._id
         /\ \A k \in 1..Len(set) :
              Get(JSONparse(now[i].document), set[k].k) = Written(set[k].v)
         /\ \A m \in Keys(JSONparse(pre[i].document)) \ Keys(set) :
              Get(JSONparse(now[i].document), m) = Get(JSONparse(pre[i].document), m)

\* C12: updateOne fails with the unsupported-update-operator error, and changes no
\* document, whenever update is not exactly { $set }: when $set is missing and
\* when another top-level key stands beside $set.
C12_OnlySetAccepted ==
  (last.op = "updateOne" /\ (~last.upd.hasSet \/ last.upd.extra)) =>
    /\ last.res = Thrown(OnlySet)
    /\ db[last.c] = last.pre

\* The $match stages of a pipeline and their predicates joined into one.
MatchStages(pipeline) == SelectSeq(pipeline, LAMBDA st : st.stage = "$match")

RECURSIVE Conjunction(_)
Conjunction(stages) ==
  IF stages = <<>> THEN <<>> ELSE stages[1].match \o Conjunction(Tail(stages))

SingleMatch(pipeline) ==
  <<MatchStage(Conjunction(MatchStages(pipeline)))>>
    \o SelectSeq(pipeline, LAMBDA st : st.stage # "$match")

\* C13: aggregate with two or more $match stages returns what the pipeline with
\* the one $match stage of all their predicates returns: no $match stage is
\* dropped or makes the call fail.
C13_MatchStagesConjoined ==
  (last.op = "aggregate" /\ Len(MatchStages(last.pipeline)) >= 2) =>
    last.res \in aggregateReturns(last.c, SingleMatch(last.pipeline))

\* Whether a document satisfies a $match predicate of MatchPool.
Satisfies(doc, m) ==
  \A i \in 1..Len(m) :
    LET v == Get(doc, m[i].k)
        w == m[i].v
    IN CASE w.t = "object" /\ w.s = "$gt" -> v.t = "number" /\ v.n > w.a[1].n
         [] w.t = "object" /\ w.s = "$lte" -> v.t = "number" /\ v.n <= w.a[1].n
         [] OTHER -> v = w

\* The value of a document at a field, null when it has none.
ValueAt(doc, f) == IF HasKey(doc, f) THEN Get(doc, f) ELSE Null

RECURSIVE SumOver(_, _, _)
SumOver(S, docs, f) ==
  IF S = {} THEN 0
  ELSE LET i == CHOOSE j \in S : TRUE
       IN (IF ValueAt(docs[i], f).t = "number" THEN ValueAt(docs[i], f).n ELSE 0)
            + SumOver(S \ {i}, docs, f)

\* C14: aggregate(c, [{$match: M}, {$group: {_id: g, s: {$sum: f}, n: {$count: 1}}}])
\* returns exactly one row per value of g among the documents satisfying M:
\* groupKey is the value, s the sum of f and n the number of documents of the group.
C14_MatchGroupSumCount ==
  (last.op = "aggregate" /\ last.pipeline \in MatchGroupPipelines /\ db[last.c].exists) =>
    LET rows == db[last.c].rows
        docs == [i \in 1..Len(rows) |-> JSONparse(rows[i].document)]
        M == last.pipeline[1].match
        g == last.pipeline[2].id
        f == last.pipeline[2].aggs[1].f
        sat == {i \in 1..Len(docs) : Satisfies(docs[i], M)}
        keys == {ValueAt(docs[i], g) : i \in sat}
        of(k) == {i \in sat : ValueAt(docs[i], g) = k}
        row(k) == <<Pair("groupKey", k), Pair("s", Num(SumOver(of(k), docs, f))),
                    Pair("n", Num(Cardinality(of(k))))>>
    IN /\ last.res.kind = "docs"
       /\ Len(last.res.docs) = Cardinality(keys)
       /\ {last.res.docs[i] : i \in 1..Len(last.res.docs)} = {row(k) : k \in keys}

\* Ages 45, 55, 15 in USA and 25, 25, 15 in MEX with age > 15: USA 100 of 2, MEX 50 of 2.
C14_Witness ==
  /\ last.op = "aggregate"
  /\ last.pipeline = <<MatchStage(<<Pair("age", Obj("$gt", <<Num(15)>>))>>),
                       GroupStage("country", SumAndCount("age"))>>
  /\ last.c = "c1"
  /\ Len(db["c1"].rows) = 6
  /\ {last.res.docs[i] : i \in 1..Len(last.res.docs)} =
       { <<Pair("groupKey", Str("USA")), Pair("s", Num(100)), Pair("n", Num(2))>>,
         <<Pair("groupKey", Str("MEX")), Pair("s", Num(50)), Pair("n", Num(2))>> }

\* The characters of the collection names and field paths of the pools.
Spelling(x) ==
  CASE x = "c1" -> <<"c", "1">>
    [] x = "c2" -> <<"c", "2">>
    [] x = "name" -> <<"n", "a", "m", "e">>
    [] x = "_id" -> <<"_", "i", "d">>
    [] x = "age" -> <<"a", "g", "e">>
    [] x = "first-name" -> <<"f", "i", "r", "s", "t", "-", "n", "a", "m", "e">>

Letter == {"a", "c", "d", "e", "f", "g", "i", "m", "n", "r", "s", "t", "_"}

Digit == {"1", "2"}

\* ^[A-Za-z_][A-Za-z0-9_]*$
IsIdentifier(x) ==
  LET w == Spelling(x)
  IN /\ Len(w) >= 1
     /\ w[1] \in Letter
     /\ \A i \in 2..Len(w) : w[i] \in Letter \cup Digit

InvalidIdentifier == "InvalidIdentifier"

\* C15: an operation given a collection name or a field path that is not an
\* identifier fails with the invalid-identifier error before any statement runs;
\* here find on an existing collection, for a query naming such a path.
C15_InvalidIdentifierRejected ==
  \A c \in Names, q \in QueryPool \cup PathQueries :
    (db[c].rows # <<>> /\ (~IsIdentifier(c) \/ \E i \in 1..Len(q) : ~IsIdentifier(q[i].k))) =>
      find(c, q) = Thrown(InvalidIdentifier)

\* C16: findWithIn(c, {field: {$in: [a, b]}}) returns exactly the documents of c
\* whose value at field equals a or equals b, each once, also when a = b.
C16_InReturnsUnion ==
  \A c \in Names, x \in InOperands, y \in InOperands :
    db[c].exists =>
      LET rows == db[c].rows
          hit == {i \in 1..Len(rows) : Get(JSONparse(rows[i].document), "name") \in {x, y}}
          res == findWithIn(c, InQuery(x, y))
      IN /\ res.kind = "docs"
         /\ Len(res.docs) = Cardinality(hit)
         /\ {res.docs[i] : i \in 1..Len(res.docs)} = {JSONparse(rows[i].document) : i \in hit}

\* What C17 says of the state after a rename: the documents read under the new
\* name are those that were under the old one, and the old name reads as a
\* collection that does not exist.
Renamed ==
  /\ db[last.newName] = last.pre
  /\ find(last.newName, <<>>) =
       Documents([i \in 1..Len(last.pre.rows) |-> RowToDocument(last.pre.rows[i])])
  /\ ~db[last.c].exists
  /\ find(last.c, <<>>) = Documents(<<>>)
  /\ findOne(last.c, <<>>) = NullResult

\* C17 as stated: renameCollection(old, new) on an existing collection old leaves
\* its documents readable under new, the same in number, content and _id, and
\* old behaves as a collection that does not exist.
C17_RenamePreserves ==
  (last.op = "renameCollection" /\ last.pre.exists) => Renamed

\* C17, amended: the same when no collection named new exists; when one exists
\* the call fails with the engine's error and old keeps its documents.
C17_RenamePreservesToUnused ==
  (last.op = "renameCollection" /\ last.pre.exists) =>
    IF last.res.kind = "ack" THEN Renamed
    ELSE /\ last.res = Thrown(TableExists)
         /\ db[last.newName].exists
         /\ db[last.c] = last.pre

C17_Witness ==
  /\ last.op = "renameCollection"
  /\ last.res.kind = "ack"
  /\ last.pre.rows # <<>>
  /\ db[last.newName].rows = last.pre.rows

\* C18: dropCollection acknowledges whether or not the collection exists and
\* leaves no collection of that name, with none of its documents: findOne(name, {})
\* returns null, a drop of a missing collection changes nothing, insertOne on a
\* missing collection fails and stores nothing, and a collection created anew
\* starts with no documents.
C18_DropDiscards ==
  /\ last.op = "dropCollection" =>
       /\ last.res = Ack
       /\ db[last.c] = NoTable
       /\ findOne(last.c, <<>>) = NullResult
       /\ ~last.pre.exists => db[last.c] = last.pre
  /\ (last.op = "insertOne" /\ ~last.pre.exists) =>
       /\ last.res = Thrown(NoSuchTable)
       /\ db[last.c] = last.pre
  /\ (last.op = "createCollection" /\ ~last.pre.exists) => db[last.c] = EmptyTable

C18_Witness ==
  /\ last.op = "dropCollection"
  /\ last.pre.rows # <<>>
  /\ db[last.c] = NoTable

\* Whether a value satisfies an operator object of OperatorQueries.
Meets(v, w) ==
  CASE w.s = "$in" -> v \in {w.a[1].a[i] : i \in 1..Len(w.a[1].a)}
    [] w.s = "$eq" -> v = w.a[1]
    [] w.s = "$ne" -> v # w.a[1]

\* C19: find(c, q) evaluates the predicate language: with an operator object as
\* the value of a field it returns the documents whose value at the field
\* satisfies the operator ($in, $eq, $ne here), it fails with the
\* unsupported-operator error on any other operator key, and with the empty
\* query it returns every document.
C19_FindEvaluatesOperators ==
  \A c \in Names :
    db[c].rows # <<>> =>
      LET rows == db[c].rows
          docs(S) == LET sel == SelectSeq(rows, LAMBDA r : r \in S)
                     IN Documents([i \in 1..Len(sel) |-> RowToDocument(sel[i])])
      IN /\ find(c, <<>>) = docs({rows[i] : i \in 1..Len(rows)})
         /\ \A q \in OperatorQueries :
              IF q[1].v.s \in {"$in", "$eq", "$ne"}
                THEN find(c, q) =
                       docs({rows[i] : i \in {j \in 1..Len(rows) :
                                               Meets(Get(JSONparse(rows[j].document), q[1].k), q[1].v)}})
                ELSE find(c, q) = Thrown(UnsupportedOperator)

\* C20: insertOne resolves the identity to doc._id whenever doc has an _id field,
\* the empty string included: the call returns that value as insertedId and the
\* row is stored under it; an identifier is generated only for a document
\* without _id.
C20_GivenIdKept ==
  (last.op = "insertOne" /\ last.res.kind = "ack") =>
    LET doc == last.docs[1]
        row == db[last.c].rows[Len(db[last.c].rows)]
    IN /\ HasKey(doc, "_id") =>
            /\ last.res.id = Get(doc, "_id").s
            /\ row._id = Get(doc, "_id").s
       /\ ~HasKey(doc, "_id") => last.res.id \notin PrimaryKeys(last.pre.rows)

\* The document the claim C21 describes for a row: _id is the primary key, every
\* other member is the blob's.
PrimaryKeyWins(row) ==
  LET blob == JSONparse(row.document)
  IN <<Pair("_id", Str(row._id))>> \o SelectSeq(blob, LAMBDA p : p.k # "_id")

\* C21: every document find and findById return carries the row's primary key as
\* its _id, also when the _id inside the blob differs from it, and takes its
\* other fields from the blob.
C21_PrimaryKeyWins ==
  \A c \in Names :
    db[c].exists =>
      LET rows == db[c].rows
      IN /\ find(c, <<>>) = Documents([i \in 1..Len(rows) |-> PrimaryKeyWins(rows[i])])
         /\ \A i \in 1..Len(rows) :
              findById(c, rows[i]._id) = Document(PrimaryKeyWins(rows[i]))

UnsupportedPipelineStage == "UnsupportedPipelineStage"

\* C22: aggregate fails with the unsupported-pipeline-stage error, returning no
\* rows, whenever a stage of the pipeline has a key other than $match or $group;
\* such a stage is never skipped.
C22_OtherStageRejected ==
  ( /\ last.op = "aggregate"
    /\ \E i \in 1..Len(last.pipeline) : last.pipeline[i].stage \notin {"$match", "$group"} ) =>
      last.res = Thrown(UnsupportedPipelineStage)

\* C23: with two $group stages the rows returned are those of the second stage
\* alone: grouped by its _id path, with groupKey and its aggregates and with no
\* output field of the first stage.
C23_SecondGroupSupersedes ==
  (last.op = "aggregate" /\ last.pipeline \in TwoGroupPipelines /\ db[last.c].exists) =>
    last.res \in aggregateReturns(last.c, <<last.pipeline[2]>>)

\* The shapes C24 says the two functions accept: every field maps to an object
\* whose one key is $in with a sequence, or $regex with a string.
IsInShape(q) ==
  \A i \in 1..Len(q) :
    q[i].v.t = "object" /\ q[i].v.s = "$in" /\ q[i].v.n = 0 /\ q[i].v.a[1].t = "array"

IsRegexShape(q) ==
  \A i \in 1..Len(q) :
    q[i].v.t = "object" /\ q[i].v.s = "$regex" /\ q[i].v.n = 0 /\ q[i].v.a[1].t = "string"

\* C24: findWithIn returns documents for the queries of the $in shape and
\* findWithRegex for those of the $regex shape, the empty pattern included; for
\* every other shape the call fails with the unsupported-operator error.
C24_OnlyOperatorShapes ==
  \A c \in Names :
    db[c].exists =>
      /\ \A q \in InQueries :
           IF IsInShape(q) THEN findWithIn(c, q).kind = "docs"
           ELSE findWithIn(c, q) = Thrown(UnsupportedOperator)
      /\ \A q \in RegexQueries :
           IF IsRegexShape(q) THEN findWithRegex(c, q).kind = "docs"
           ELSE findWithRegex(c, q) = Thrown(UnsupportedOperatorForKey)

====
